---- MODULE Spec2Model ----
(***************************************************************************)
(* Bag-of-words image database of vsearch/database.py.                     *)
(*                                                                         *)
(* Numbers.  np.log is tabulated in tenths (LnTable), which keeps log 1 =  *)
(* 0, the sign and the order of every logarithm the bounds can reach.  A   *)
(* cosine distance 1 - c is kept exactly: the sign of c and c^2 as a       *)
(* reduced fraction, or NaN.  Floating point rounding is not modelled.     *)
(* Word ids are 1..K here and 0..K-1 in the code.                          *)
(***************************************************************************)
EXTENDS Integers, Sequences, FiniteSets, TLC

\* ---------------------------------------------------------------- bounds
\* successful add_image calls in one run of Spec
MaxAdds == 3
\* entries of the file that from_file loads in SpecLoad
MaxLoad == 7

\* ---------------------------------------------------------------- inputs
Keys == {"a", "b", "c"}

\* The vocabulary handed to the constructor: K = 3 words of dimension D = 2.
vocabulary == << <<0, 0>>, <<4, 0>>, <<0, 4>> >>

\* A numpy array: ndim, shape[1] for a matrix, and the data.
Vec(v) == [ndim |-> 1, cols |-> 0, data |-> v]
Mat(c, rows) == [ndim |-> 2, cols |-> c, data |-> rows]

RECURSIVE tile(_, _)
tile(row, n) == IF n = 0 THEN << >> ELSE <<row>> \o tile(row, n - 1)

RECURSIVE vstack(_, _)
vstack(bow, i) ==
    IF i > Len(bow) THEN << >> ELSE tile(vocabulary[i], bow[i]) \o vstack(bow, i + 1)

\* test helper: bow[i] copies of word i, stacked
descriptors_from_bow(bow) == Mat(Len(vocabulary[1]), vstack(bow, 1))

\* 1-D inputs of add_image: three of the right length, one too short
BowInputs == { Vec(<<3, 0, 0>>), Vec(<<0, 2, 0>>), Vec(<<1, 1, 0>>), Vec(<<1, 0>>) }

\* 2-D inputs: a matrix without rows, four rows on two words, a wrong width
DescriptorInputs ==
    { Mat(2, << >>), descriptors_from_bow(<<2, 2, 0>>), Mat(3, << <<0, 0, 0>> >>) }

AddInputs == BowInputs \cup DescriptorInputs

\* values assigned with db[key] = value
SetInputs == { Vec(<<1, 1, 0>>), Mat(3, << <<0, 0, 0>> >>) }

\* query matrices: two made of words, no row, rows next to words 1 and 3,
\* a wrong width
QueryInputs ==
    { descriptors_from_bow(<<1, 1, 0>>), descriptors_from_bow(<<3, 0, 0>>),
      Mat(2, << >>), Mat(2, << <<1, 0>>, <<0, 3>> >>), Mat(3, << <<0, 0, 0>> >>) }

\* ----------------------------------------------------------------- state
VARIABLES
    annoy_index,    \* [f, items]: the index built over the vocabulary
    image_vectors,  \* the dict key -> bow, as the sequence of its items
    idf,            \* None or the vector of log weights
    word_counts,    \* _word_counts
    result,         \* the last call: op, key, arg, raised, value
    added_ever,     \* history: number of successful add_image calls
    ever_count,     \* history: per word, documents ever added with bow > 0
    search,         \* the frame of a thread inside query_descriptors
    main,           \* the frame of a thread inside add_image
    wrapper,        \* sift_db and cname_db, and whether SiftColornamesWrapper is built
    locations,      \* DatabaseWithLocation.locations, as the sequence of its items
    last_set,       \* history: per key, the value last stored with locdb[key] = latlng
    gui,            \* GuiWrappedDatabase: the map widget's markers and the two marker maps
    index_path,     \* the content of /tmp/bow_db_creator_annoy_index.ann
    build           \* per run of a database script, where it is and what it wrote

\* the state outside the catalog itself
outside == <<locations, last_set, gui, index_path, build>>

vars == <<annoy_index, image_vectors, idf, word_counts, result, added_ever, ever_count,
          search, main, wrapper, outside>>

self == [annoy_index |-> annoy_index, image_vectors |-> image_vectors,
         idf |-> idf, word_counts |-> word_counts]

\* ------------------------------------------------------------- arithmetic
\* 10 * ln n for n = 1..10, rounded so that ln(a*b) = ln a + ln b
LnTable == <<0, 7, 11, 14, 16, 18, 19, 21, 22, 23>>

\* np.log(num / den)
log(num, den) == LnTable[num] - LnTable[den]

\* an array holding the values of f, each computed once
array(f) == f \o << >>

RECURSIVE SumTo(_, _)
SumTo(f, n) == IF n = 0 THEN 0 ELSE f[n] + SumTo(f, n - 1)

\* np.dot
dot(x, y) == SumTo(array([w \in 1..Len(x) |-> x[w] * y[w]]), Len(x))

RECURSIVE GCD(_, _)
GCD(a, b) == IF b = 0 THEN a ELSE GCD(b, a % b)

NaN == [nan |-> TRUE, s |-> 0, p |-> 0, q |-> 1]

\* the float 1 - s*sqrt(p/q)
Distance(s, p, q) == [nan |-> FALSE, s |-> s, p |-> p, q |-> q]

cos_distance(x, y) ==
    LET nx == dot(x, x)
        ny == dot(y, y)
        d  == dot(x, y)
        g  == GCD(d * d, nx * ny)
    IN  IF Len(x) = 0 THEN Distance(0, 0, 1)
        ELSE IF nx = 0 \/ ny = 0 THEN NaN
        ELSE IF d = 0 THEN Distance(0, 0, 1)
        ELSE Distance(IF d > 0 THEN 1 ELSE -1, (d * d) \div g, (nx * ny) \div g)

\* a/b < c/d for a, c >= 0 and b, d > 0, without forming a product
RECURSIVE FracLt(_, _, _, _)
FracLt(a, b, c, d) ==
    IF a \div b # c \div d THEN a \div b < c \div d
    ELSE IF c % d = 0 THEN FALSE
    ELSE IF a % b = 0 THEN TRUE
    ELSE FracLt(d, c % d, b, a % b)

\* x < y on floats: false as soon as one side is NaN
FloatLt(x, y) ==
    /\ ~x.nan
    /\ ~y.nan
    /\ IF x.s # y.s THEN y.s < x.s
       ELSE IF x.s = 1 THEN FracLt(y.p, y.q, x.p, x.q)
       ELSE IF x.s = -1 THEN FracLt(x.p, x.q, y.p, y.q)
       ELSE FALSE

\* ----------------------------------------------------- list.sort / sorted
\* CPython's sort of a list shorter than 64 items: count_run finds the
\* leading run (reversed when strictly descending), binarysort inserts the
\* rest.  The key of a match <<key, distance>> is its distance.
ISLT(a, b) == FloatLt(a[2], b[2])

RECURSIVE run_length(_, _, _)
run_length(s, n, descending) ==
    IF n = Len(s) THEN n
    ELSE IF ISLT(s[n + 1], s[n]) = descending THEN run_length(s, n + 1, descending)
    ELSE n

count_run(s) ==
    IF Len(s) < 2 THEN [n |-> Len(s), descending |-> FALSE]
    ELSE [n |-> run_length(s, 2, ISLT(s[2], s[1])), descending |-> ISLT(s[2], s[1])]

reverse_slice(s, n) == array([i \in 1..Len(s) |-> IF i <= n THEN s[n + 1 - i] ELSE s[i]])

\* the slot, counted from 0, where binarysort puts pivot in s[l+1..r]
RECURSIVE binary_slot(_, _, _, _)
binary_slot(s, pivot, l, r) ==
    IF l >= r THEN l
    ELSE LET p == l + ((r - l) \div 2)
         IN  IF ISLT(pivot, s[p + 1]) THEN binary_slot(s, pivot, l, p)
             ELSE binary_slot(s, pivot, p + 1, r)

RECURSIVE binarysort(_, _)
binarysort(s, start) ==
    IF start > Len(s) THEN s
    ELSE LET l == binary_slot(s, s[start], 0, start - 1)
             t == array([i \in 1..Len(s) |->
                     IF i <= l THEN s[i]
                     ELSE IF i = l + 1 THEN s[start]
                     ELSE IF i <= start THEN s[i - 1]
                     ELSE s[i]])
         IN  binarysort(t, start + 1)

sorted(matches) ==
    LET run == count_run(matches)
        s   == IF run.descending THEN reverse_slice(matches, run.n) ELSE matches
    IN  binarysort(s, run.n + 1)

\* ------------------------------------------------------------ the database
\* self.idf before the first insertion: no array, not even one of length 0
None == <<"None">>

Raise(error, slf) == [raised |-> error, self |-> slf, value |-> << >>]
Return(slf, value) == [raised |-> "None", self |-> slf, value |-> value]

\* key in self.image_vectors
Contains(items, key) == \E i \in 1..Len(items) : items[i][1] = key
KeySet(items) == {items[i][1] : i \in 1..Len(items)}
\* self.image_vectors[key], for a key it holds
Lookup(items, key) == items[CHOOSE i \in 1..Len(items) : items[i][1] = key][2]

\* the position of key in the insertion order
Position(key) == CHOOSE i \in 1..Len(image_vectors) : image_vectors[i][1] = key

\* AnnDatabase._voc_size
vocabulary_size(slf) == Len(slf.annoy_index.items)

\* AnnDatabase._load_vocabulary: feat_size = vocabulary.shape[1], one item per row
load_vocabulary(voc) == [f |-> voc.cols, items |-> voc.data]

SqDist(x, y) ==
    LET d == array([i \in 1..Len(x) |-> x[i] - y[i]]) IN dot(d, d)

\* annoy_index.get_nns_by_vector(d, 1): the nearest word, the lowest id on a tie
get_nns_by_vector(index, d) ==
    LET distance == array([m \in 1..Len(index.items) |-> SqDist(index.items[m], d)])
    IN  CHOOSE l \in 1..Len(index.items) :
            \A m \in 1..Len(index.items) :
                distance[l] < distance[m] \/ (distance[l] = distance[m] /\ l <= m)

\* bag without the test of the width of the matrix
bag_unchecked(slf, descriptors) ==
    LET l == array([i \in 1..Len(descriptors.data) |->
                get_nns_by_vector(slf.annoy_index, descriptors.data[i])])
    IN  Return(slf, array([w \in 1..vocabulary_size(slf) |->
                       Cardinality({i \in 1..Len(descriptors.data) : l[i] = w})]))

\* bag counting a word once however many descriptors fall on it
bag_presence(slf, descriptors) ==
    IF descriptors.cols # slf.annoy_index.f THEN Raise("DatabaseError", slf)
    ELSE LET l == array([i \in 1..Len(descriptors.data) |->
                     get_nns_by_vector(slf.annoy_index, descriptors.data[i])])
         IN  Return(slf, array([w \in 1..vocabulary_size(slf) |->
                            IF \E i \in 1..Len(descriptors.data) : l[i] = w THEN 1 ELSE 0]))

\* AnnDatabase.bag.  descriptors.shape[1] raises IndexError for an array of
\* less than two dimensions.  An index without items returns no neighbour,
\* and l, *_ = [] raises ValueError.
bag(slf, descriptors) ==
    IF descriptors.ndim < 2 THEN Raise("IndexError", slf)
    ELSE IF descriptors.cols # slf.annoy_index.f THEN Raise("DatabaseError", slf)
    ELSE IF vocabulary_size(slf) = 0 /\ Len(descriptors.data) > 0 THEN Raise("ValueError", slf)
    ELSE LET l == array([i \in 1..Len(descriptors.data) |->
                     get_nns_by_vector(slf.annoy_index, descriptors.data[i])])
         IN  Return(slf, array([w \in 1..vocabulary_size(slf) |->
                            Cardinality({i \in 1..Len(descriptors.data) : l[i] = w})]))

\* count_words adding the frequencies instead of the presence of each word
count_words_tf(counts, bow) ==
    array([w \in 1..Len(counts) |-> counts[w] + bow[w]])

\* count_words that assigns the presence of each word instead of adding it
count_words_assign(counts, bow) ==
    array([w \in 1..Len(counts) |-> IF bow[w] > 0 THEN 1 ELSE 0])

\* self._word_counts += (bow > 0)
count_words(counts, bow) ==
    array([w \in 1..Len(counts) |-> counts[w] + (IF bow[w] > 0 THEN 1 ELSE 0)])

\* compute_idf with the document count smoothed as well: log((1 + n) / (1 + counts))
compute_idf_smooth(n, counts) == array([w \in 1..Len(counts) |-> log(1 + n, 1 + counts[w])])

\* np.log(len(self.image_vectors) / (1 + self._word_counts).astype('float'))
compute_idf(n, counts) == array([w \in 1..Len(counts) |-> log(n, 1 + counts[w])])

\* store_image that writes the new vector over the oldest entry as well
store_image_clobber(slf, key, bow) ==
    LET kept   == array([i \in 1..Len(slf.image_vectors) |->
                      IF i = 1 THEN <<slf.image_vectors[i][1], bow>>
                      ELSE slf.image_vectors[i]])
        items  == Append(kept, <<key, bow>>)
        counts == count_words(slf.word_counts, bow)
    IN  Return([slf EXCEPT !.image_vectors = items,
                           !.word_counts = counts,
                           !.idf = compute_idf(Len(items), counts)], << >>)

\* store_image that inserts the new entry twice
store_image_twice(slf, key, bow) ==
    LET items  == slf.image_vectors \o << <<key, bow>>, <<key, bow>> >>
        counts == count_words(slf.word_counts, bow)
    IN  Return([slf EXCEPT !.image_vectors = items,
                           !.word_counts = counts,
                           !.idf = compute_idf(Len(items), counts)], << >>)

\* store_image that computes the IDF before it counts the new document's words
store_image_stale(slf, key, bow) ==
    LET items  == Append(slf.image_vectors, <<key, bow>>)
        counts == count_words(slf.word_counts, bow)
    IN  Return([slf EXCEPT !.image_vectors = items,
                           !.word_counts = counts,
                           !.idf = compute_idf(Len(items), slf.word_counts)], << >>)

\* lines 104-108: store the vector, then update the counts and the IDF
store_image(slf, key, bow) ==
    LET items  == Append(slf.image_vectors, <<key, bow>>)
        counts == count_words(slf.word_counts, bow)
    IN  Return([slf EXCEPT !.image_vectors = items,
                           !.word_counts = counts,
                           !.idf = compute_idf(Len(items), counts)], << >>)

\* lines 95-99: the vector of a 1-D input is the input, of a 2-D one its bag
input_bow(slf, x) == IF x.ndim = 1 THEN Return(slf, x.data) ELSE bag(slf, x)

\* lines 101-108: the length test, then the insertion
insert_bow(slf, key, bow) ==
    IF Len(bow) # vocabulary_size(slf) THEN Raise("DatabaseError", slf)
    ELSE store_image(slf, key, bow)

\* add_image without the test of line 92: a second insertion replaces the first
add_image_overwrite(slf, key, x) ==
    LET b == input_bow(slf, x)
    IN  IF b.raised # "None" THEN b
        ELSE insert_bow([slf EXCEPT !.image_vectors =
                           SelectSeq(slf.image_vectors, LAMBDA e : e[1] # key)], key, b.value)

\* BagOfWordsDatabase.add_image
add_image(slf, key, x) ==
    IF Contains(slf.image_vectors, key) THEN Raise("DatabaseError", slf)
    ELSE LET b == input_bow(slf, x)
         IN  IF b.raised # "None" THEN b ELSE insert_bow(slf, key, b.value)

\* BagOfWordsDatabase.__setitem__
setitem(slf, key, value) ==
    IF Contains(slf.image_vectors, key) THEN Raise("DatabaseError", slf)
    ELSE add_image(slf, key, value)

\* delitem that also takes the removed document out of the word counts
delitem_decrement(slf, key) ==
    IF ~Contains(slf.image_vectors, key) THEN Raise("KeyError", slf)
    ELSE Return([slf EXCEPT
                   !.image_vectors = SelectSeq(slf.image_vectors, LAMBDA e : e[1] # key),
                   !.word_counts = array([w \in 1..Len(slf.word_counts) |->
                       slf.word_counts[w] -
                       (IF Lookup(slf.image_vectors, key)[w] > 0 THEN 1 ELSE 0)])], << >>)

\* delitem that ignores a key the dict does not hold
delitem_silent(slf, key) ==
    Return([slf EXCEPT !.image_vectors =
               SelectSeq(slf.image_vectors, LAMBDA e : e[1] # key)], << >>)

\* delitem that drops the entry and every entry inserted after it
delitem_truncate(slf, key) ==
    IF ~Contains(slf.image_vectors, key) THEN Raise("KeyError", slf)
    ELSE Return([slf EXCEPT !.image_vectors =
                    SubSeq(slf.image_vectors, 1,
                           (CHOOSE i \in 1..Len(slf.image_vectors) :
                               slf.image_vectors[i][1] = key) - 1)], << >>)

\* BagOfWordsDatabase.__delitem__
delitem(slf, key) ==
    IF ~Contains(slf.image_vectors, key) THEN Raise("KeyError", slf)
    ELSE Return([slf EXCEPT !.image_vectors =
                    SelectSeq(slf.image_vectors, LAMBDA e : e[1] # key)], << >>)

\* tf * self.idf
weigh(tf, weights) == array([w \in 1..Len(tf) |-> tf[w] * weights[w]])

\* t_tfidf that leaves the stored vector unweighted
t_tfidf_unweighted(slf, t_tf) == t_tf

\* t_tfidf kept from the insertion: the stored vector under the weights that
\* add_image computed when the vector was inserted
t_tfidf_at_insertion(slf, t_tf) ==
    LET items == slf.image_vectors
        found == {i \in 1..Len(items) : items[i][2] = t_tf}
    IN  IF found = {} THEN weigh(t_tf, slf.idf)
        ELSE LET n == CHOOSE i \in found : \A j \in found : i <= j
             IN  weigh(t_tf, compute_idf(n, array([w \in 1..Len(t_tf) |->
                            Cardinality({i \in 1..n : items[i][2][w] > 0})])))

\* t_tfidf = t_tf * self.idf, a stored vector under the current weights
t_tfidf(slf, t_tf) == weigh(t_tf, slf.idf)

\* BagOfWordsDatabase.query_descriptors
query_descriptors(slf, descriptors) ==
    LET q == bag(slf, descriptors)
    IN  IF q.raised # "None" THEN q
        ELSE IF slf.idf = None THEN Raise("TypeError", slf)
        ELSE LET q_tfidf == weigh(q.value, slf.idf)
                 matches == array([i \in 1..Len(slf.image_vectors) |->
                               <<slf.image_vectors[i][1],
                                 cos_distance(q_tfidf, t_tfidf(slf, slf.image_vectors[i][2]))>>])
             IN  Return(slf, sorted(matches))

\* ------------------------------------------------- SiftColornamesWrapper
\* dict(matches): one entry per key, at the place of the key's first pair and
\* with the distance of its last pair
RECURSIVE dict(_)
dict(pairs) ==
    IF pairs = << >> THEN << >>
    ELSE LET d    == dict(SubSeq(pairs, 1, Len(pairs) - 1))
             last == pairs[Len(pairs)]
         IN  IF Contains(d, last[1])
             THEN array([i \in 1..Len(d) |-> IF d[i][1] = last[1] THEN last ELSE d[i]])
             ELSE Append(d, last)

\* Python's min(x, y): y when y < x, else x
min(x, y) == IF FloatLt(y, x) THEN y ELSE x

\* combine_matches that takes the larger of the two distances
combine_matches_max(wrp, sift_matches, cname_matches) ==
    LET s == dict(sift_matches)
        c == dict(cname_matches)
    IN  IF \E i \in 1..Len(s) : ~Contains(c, s[i][1]) THEN Raise("KeyError", wrp)
        ELSE Return(wrp, sorted(array([i \in 1..Len(s) |->
                 <<s[i][1], IF FloatLt(s[i][2], Lookup(c, s[i][1]))
                            THEN Lookup(c, s[i][1]) ELSE s[i][2]>>])))

\* SiftColornamesWrapper.combine_matches: the keys of sift_matches, each with
\* the smaller distance, sorted; cname_matches[key] raises KeyError
combine_matches(wrp, sift_matches, cname_matches) ==
    LET s == dict(sift_matches)
        c == dict(cname_matches)
    IN  IF \E i \in 1..Len(s) : ~Contains(c, s[i][1]) THEN Raise("KeyError", wrp)
        ELSE Return(wrp, sorted(array([i \in 1..Len(s) |->
                 <<s[i][1], min(s[i][2], Lookup(c, s[i][1]))>>])))

\* SiftColornamesWrapper.__init__
wrapper_init(wrp) ==
    IF KeySet(wrp.sift_db.image_vectors) # KeySet(wrp.cname_db.image_vectors)
    THEN Raise("DatabaseError", wrp)
    ELSE Return([wrp EXCEPT !.built = TRUE], << >>)

\* SiftColornamesWrapper.query_image: the image gives the descriptors of
\* each kind; each database is queried with its own, then the lists are combined
query_image(wrp, image) ==
    LET sift_matches == query_descriptors(wrp.sift_db, image.sift)
    IN  IF sift_matches.raised # "None" THEN Raise(sift_matches.raised, wrp)
        ELSE LET cname_matches == query_descriptors(wrp.cname_db, image.cname)
             IN  IF cname_matches.raised # "None" THEN Raise(cname_matches.raised, wrp)
                 ELSE combine_matches(wrp, sift_matches.value, cname_matches.value)

\* ---------------------------------------------------------------- actions
NoArg == Vec(<< >>)

Call(op, key, arg, r) ==
    /\ result' = [op |-> op, key |-> key, arg |-> arg, raised |-> r.raised, value |-> r.value]
    /\ annoy_index' = r.self.annoy_index
    /\ image_vectors' = r.self.image_vectors
    /\ idf' = r.self.idf
    /\ word_counts' = r.self.word_counts
    /\ UNCHANGED <<search, main, wrapper, outside>>

\* the history of a call that may have added a document
Observe(r) ==
    IF Len(r.self.image_vectors) > Len(image_vectors)
    THEN /\ added_ever' = added_ever + 1
         /\ ever_count' = [w \in 1..Len(ever_count) |-> ever_count[w] +
               (IF r.self.image_vectors[Len(r.self.image_vectors)][2][w] > 0 THEN 1 ELSE 0)]
    ELSE UNCHANGED <<added_ever, ever_count>>

\* a thread that is in no call
IdleSearch ==
    [pc |-> "idle", q_tf |-> << >>, q_tfidf |-> << >>, q_idf |-> << >>, di_used |-> 0,
     di_pos |-> 0, key |-> "", t_tf |-> << >>, matches |-> << >>, t_idf |-> << >>]
IdleMain == [pc |-> "idle", key |-> "", bow |-> << >>]

\* the K x D array of the vocabulary
Vocabulary == Mat(Len(vocabulary[1]), vocabulary)

\* BagOfWordsDatabase.__init__ and AnnDatabase.__init__: the new instance
init(voc) ==
    LET index == load_vocabulary(voc)
    IN  [annoy_index |-> index, image_vectors |-> << >>, idf |-> None,
         word_counts |-> array([w \in 1..Len(index.items) |-> 0])]

\* None where a location is expected: a record, as the other values of
\* locations are
NoLatLng == [tag |-> "None"]

\* GuiWrappedDatabase.__init__, lines 29-30, and LeafletWidget.__init__,
\* line 93: no marker anywhere.  markers is the widget's dict id -> marker
\* (with the marker's own id field), marker_dict the dict of the page's
\* script, stamp the last id that L.stamp gave.
GuiInit ==
    [markers |-> {}, marker_dict |-> {}, marker_id_to_key |-> {}, key_to_marker_id |-> {},
     stamp |-> 0]

\* the index file does not exist
NoFile == [exists |-> FALSE, vocabulary |-> << >>]

\* the state after db = AnnDatabase(voc); the two databases that a
\* SiftColornamesWrapper will hold are constructed as well
Construct(voc) ==
    /\ annoy_index = init(voc).annoy_index
    /\ image_vectors = init(voc).image_vectors
    /\ idf = init(voc).idf
    /\ word_counts = init(voc).word_counts
    /\ result = [op |-> "init", key |-> "", arg |-> voc, raised |-> "None", value |-> << >>]
    /\ added_ever = 0
    /\ ever_count = init(voc).word_counts
    /\ search = IdleSearch
    /\ main = IdleMain
    /\ wrapper = [sift_db |-> init(Vocabulary), cname_db |-> init(Vocabulary), built |-> FALSE]
    /\ locations = << >>
    /\ last_set = [key \in Keys |-> NoLatLng]
    /\ gui = GuiInit
    /\ index_path = NoFile
    /\ build = << >>

Init == Construct(Vocabulary)

\* --------------------------------------------------------- the database file
\* The names of a file's entries in the order in which `for key in f` gives
\* them: h5py iterates the names of a group in the order of the names.
KeyOrder == <<"a", "b", "c">>

\* The file that the database scripts write: f[key] = document_word_freq for
\* every document and f['vocabulary'] = vocabulary.
to_file(slf) ==
    [vocabulary |-> Mat(slf.annoy_index.f, slf.annoy_index.items),
     entries |-> array([i \in 1..Len(SelectSeq(KeyOrder,
                                  LAMBDA k : Contains(slf.image_vectors, k))) |->
                    LET key == SelectSeq(KeyOrder,
                                   LAMBDA k : Contains(slf.image_vectors, k))[i]
                    IN  <<key, Vec(Lookup(slf.image_vectors, key))>>])]

\* from_file, lines 184-187: add_image for every entry of the file
RECURSIVE from_file_loop(_, _, _)
from_file_loop(instance, entries, i) ==
    IF i > Len(entries) THEN Return(instance, << >>)
    ELSE LET r == add_image(instance, entries[i][1], entries[i][2])
         IN  IF r.raised # "None" THEN r ELSE from_file_loop(r.self, entries, i + 1)

\* from_file whose loop misses the first entry of the file
from_file_skip(file) == from_file_loop(init(file.vocabulary), file.entries, 2)

\* BagOfWordsDatabase.from_file
from_file(file) == from_file_loop(init(file.vocabulary), file.entries, 1)

AddImage(key, x) ==
    /\ added_ever < MaxAdds
    /\ \E r \in {add_image(self, key, x)} :
           Call("add_image", key, x, r) /\ Observe(r)

SetItem(key, x) ==
    /\ added_ever < MaxAdds
    /\ \E r \in {setitem(self, key, x)} :
           Call("setitem", key, x, r) /\ Observe(r)

DelItem(key) ==
    /\ \E r \in {delitem(self, key)} : Call("delitem", key, NoArg, r)
    /\ UNCHANGED <<added_ever, ever_count>>

QueryDescriptors(descriptors) ==
    /\ \E r \in {query_descriptors(self, descriptors)} :
           Call("query_descriptors", "", descriptors, r)
    /\ UNCHANGED <<added_ever, ever_count>>

Next ==
    \/ \E key \in Keys, x \in AddInputs : AddImage(key, x)
    \/ \E key \in Keys, x \in SetInputs : SetItem(key, x)
    \/ \E key \in Keys : DelItem(key)
    \/ \E descriptors \in QueryInputs : QueryDescriptors(descriptors)

Spec == Init /\ [][Next]_vars

\* ----------------------------------------------------- loading from a file
\* The names of the file's entries, in the order h5py iterates them.
FileKeys == <<"img1", "img2", "img3", "img4", "img5", "img6", "img7", "img8", "img9">>

\* the vectors a file entry may hold
FileVectors == { Vec(<<1, 1, 0>>), Vec(<<3, 0, 0>>), Vec(<<0, 0, 1>>), Vec(<<0, 0, 0>>) }

\* the query made of the loaded database
LoadQueries == { descriptors_from_bow(<<1, 1, 0>>) }

\* from_file, lines 184-187: one turn of the loop over the file's keys
FromFile(x) ==
    /\ Len(image_vectors) = added_ever
    /\ added_ever < MaxLoad
    /\ \E r \in {add_image(self, FileKeys[added_ever + 1], x)} :
           Call("add_image", FileKeys[added_ever + 1], x, r) /\ Observe(r)

NextLoad ==
    \/ \E x \in FileVectors : FromFile(x)
    \/ \E descriptors \in LoadQueries : QueryDescriptors(descriptors)

SpecLoad == Init /\ [][NextLoad]_vars

\* ------------------------------------------------------------ two threads
\* One thread runs query_descriptors (SearchThread.run does, through
\* query_path) while another runs add_image and del on the same database.
\* Nothing in the code locks: a thread switch may fall between any two
\* statements, so each statement that reads or writes the shared fields is a
\* step of its own.
ThreadKeys == {"a", "b"}
ThreadVectors == { Vec(<<3, 0, 0>>), Vec(<<1, 1, 0>>) }
ThreadQueries == { descriptors_from_bow(<<1, 1, 0>>) }

Finish(op, key, arg, raised, value) ==
    result' = [op |-> op, key |-> key, arg |-> arg, raised |-> raised, value |-> value]

\* add_image, lines 92-104: the tests, then self.image_vectors[key] = bow
Add104(key, x) ==
    /\ main.pc = "idle"
    /\ added_ever < MaxAdds
    /\ \E r \in {add_image(self, key, x)} :
          IF r.raised # "None"
          THEN /\ Finish("add_image", key, x, r.raised, << >>)
               /\ UNCHANGED <<image_vectors, main, added_ever, ever_count>>
          ELSE /\ image_vectors' = r.self.image_vectors
               /\ main' = [pc |-> "107", key |-> key,
                           bow |-> r.self.image_vectors[Len(r.self.image_vectors)][2]]
               /\ Observe(r)
               /\ UNCHANGED result
    /\ UNCHANGED <<outside, wrapper, annoy_index, idf, word_counts, search>>

\* add_image, line 107: self._word_counts += (bow > 0)
Add107 ==
    /\ main.pc = "107"
    /\ word_counts' = count_words(word_counts, main.bow)
    /\ main' = [main EXCEPT !.pc = "108"]
    /\ UNCHANGED <<outside, wrapper, annoy_index, image_vectors, idf, result, added_ever, ever_count, search>>

\* add_image, line 108: self.idf = np.log(len(self.image_vectors) / ...)
Add108 ==
    /\ main.pc = "108"
    /\ idf' = compute_idf(Len(image_vectors), word_counts)
    /\ Finish("add_image", main.key, Vec(main.bow), "None", << >>)
    /\ main' = IdleMain
    /\ UNCHANGED <<outside, wrapper, annoy_index, image_vectors, word_counts, added_ever, ever_count, search>>

\* del db[key] by the thread that adds.  The entries of a dict do not move
\* when one is deleted; di_pos counts the live entries before the iterator,
\* so a deletion before it lowers it.
Del(key) ==
    /\ main.pc = "idle"
    /\ \E r \in {delitem(self, key)} :
          /\ Finish("delitem", key, NoArg, r.raised, << >>)
          /\ image_vectors' = r.self.image_vectors
          /\ search' = IF /\ r.raised = "None"
                          /\ search.pc \in {"next", "153"}
                          /\ Position(key) <= search.di_pos
                       THEN [search EXCEPT !.di_pos = search.di_pos - 1]
                       ELSE search
    /\ UNCHANGED <<outside, wrapper, annoy_index, idf, word_counts, main, added_ever, ever_count>>

\* query_descriptors, line 148: q_tf = self.bag(descriptors)
Query148(descriptors) ==
    /\ search.pc \in {"idle", "done"}
    /\ \E q \in {bag(self, descriptors)} :
          IF q.raised # "None"
          THEN /\ Finish("query_descriptors", "", descriptors, q.raised, << >>)
               /\ search' = IdleSearch
          ELSE /\ search' = [IdleSearch EXCEPT !.pc = "149", !.q_tf = q.value]
               /\ UNCHANGED result
    /\ UNCHANGED <<outside, wrapper, annoy_index, image_vectors, idf, word_counts, main, added_ever, ever_count>>

\* line 149: q_tfidf = q_tf * self.idf
Query149 ==
    /\ search.pc = "149"
    /\ IF idf = None
       THEN /\ Finish("query_descriptors", "", NoArg, "TypeError", << >>)
            /\ search' = IdleSearch
       ELSE /\ search' = [search EXCEPT !.pc = "152", !.q_tfidf = weigh(search.q_tf, idf),
                                        !.q_idf = idf]
            /\ UNCHANGED result
    /\ UNCHANGED <<outside, wrapper, annoy_index, image_vectors, idf, word_counts, main, added_ever, ever_count>>

\* line 152: self.image_vectors.items() and the iterator of the for loop
Query152 ==
    /\ search.pc = "152"
    /\ search' = [search EXCEPT !.pc = "next", !.di_used = Len(image_vectors), !.di_pos = 0]
    /\ UNCHANGED <<outside, wrapper, annoy_index, image_vectors, idf, word_counts, result, main,
                   added_ever, ever_count>>

\* line 152, one turn: the iterator raises RuntimeError when the size of the
\* dict has changed, ends the loop, or gives the next item
QueryNext ==
    /\ search.pc = "next"
    /\ IF Len(image_vectors) # search.di_used
       THEN /\ Finish("query_descriptors", "", NoArg, "RuntimeError", << >>)
            /\ search' = IdleSearch
       ELSE /\ UNCHANGED result
            /\ search' =
                  IF search.di_pos >= Len(image_vectors)
                  THEN [search EXCEPT !.pc = "157"]
                  ELSE [search EXCEPT !.pc = "153",
                                      !.di_pos = search.di_pos + 1,
                                      !.key = image_vectors[search.di_pos + 1][1],
                                      !.t_tf = image_vectors[search.di_pos + 1][2]]
    /\ UNCHANGED <<outside, wrapper, annoy_index, image_vectors, idf, word_counts, main, added_ever, ever_count>>

\* lines 153-155: t_tfidf = t_tf * self.idf, the distance, matches.append
Query153 ==
    /\ search.pc = "153"
    /\ search' = [search EXCEPT
                    !.pc = "next",
                    !.matches = Append(search.matches,
                        <<search.key, cos_distance(search.q_tfidf, t_tfidf(self, search.t_tf))>>),
                    !.t_idf = Append(search.t_idf, idf)]
    /\ UNCHANGED <<outside, wrapper, annoy_index, image_vectors, idf, word_counts, result, main,
                   added_ever, ever_count>>

\* line 157: return sorted(matches, ...)
Query157 ==
    /\ search.pc = "157"
    /\ Finish("query_descriptors", "", NoArg, "None", sorted(search.matches))
    /\ search' = [search EXCEPT !.pc = "done"]
    /\ UNCHANGED <<outside, wrapper, annoy_index, image_vectors, idf, word_counts, main, added_ever, ever_count>>

NextThreads ==
    \/ \E key \in ThreadKeys, x \in ThreadVectors : Add104(key, x)
    \/ Add107
    \/ Add108
    \/ \E key \in ThreadKeys : Del(key)
    \/ \E descriptors \in ThreadQueries : Query148(descriptors)
    \/ Query149
    \/ Query152
    \/ QueryNext
    \/ Query153
    \/ Query157

SpecThreads == Init /\ [][NextThreads]_vars

\* ------------------------------------------------ two databases combined
\* SiftColornamesWrapper.from_files loads a database of each kind from its
\* file and builds the wrapper over them; query_image then asks both.
\* entries of each of the two files
MaxFused == 3

FusedVectors == { Vec(<<3, 0, 0>>), Vec(<<0, 2, 0>>), Vec(<<0, 0, 0>>) }

\* the descriptors of a query image: rows next to words 1 and 3, or words 1 and 2
ImageDescriptors == { Mat(2, << <<1, 0>>, <<0, 3>> >>), descriptors_from_bow(<<1, 1, 0>>) }
Images == [sift : ImageDescriptors, cname : ImageDescriptors]

\* distances written as floats: 0.1, 0.2, 0.5, 0.8, 0.9
D01 == Distance(1, 81, 100)
D02 == Distance(1, 16, 25)
D05 == Distance(1, 1, 4)
D08 == Distance(1, 1, 25)
D09 == Distance(1, 1, 100)

\* lists of matches handed to combine_matches: the two of the example
\* a:(0.1,0.9) b:(0.5,0.2) c:(0.8,0.8), and one without the key c
MatchLists ==
    { << <<"a", D01>>, <<"b", D05>>, <<"c", D08>> >>,
      << <<"b", D02>>, <<"c", D08>>, <<"a", D09>> >>,
      << <<"a", D01>>, <<"b", D05>> >> }

CallWrapper(op, arg, r) ==
    /\ result' = [op |-> op, key |-> "", arg |-> arg, raised |-> r.raised, value |-> r.value]
    /\ wrapper' = r.self
    /\ UNCHANGED <<annoy_index, image_vectors, idf, word_counts, added_ever, ever_count,
                   search, main, outside>>

\* from_files, lines 312-313: one turn of from_file's loop for one database
LoadSift(x) ==
    /\ ~wrapper.built
    /\ Len(wrapper.sift_db.image_vectors) < MaxFused
    /\ \E r \in {add_image(wrapper.sift_db,
                           FileKeys[Len(wrapper.sift_db.image_vectors) + 1], x)} :
          CallWrapper("load_sift", x,
                      [r EXCEPT !.self = [wrapper EXCEPT !.sift_db = r.self]])

LoadCname(x) ==
    /\ ~wrapper.built
    /\ Len(wrapper.cname_db.image_vectors) < MaxFused
    /\ \E r \in {add_image(wrapper.cname_db,
                           FileKeys[Len(wrapper.cname_db.image_vectors) + 1], x)} :
          CallWrapper("load_cname", x,
                      [r EXCEPT !.self = [wrapper EXCEPT !.cname_db = r.self]])

\* from_files, line 314: cls(sift_db, cname_db)
WrapperInit ==
    /\ ~wrapper.built
    /\ \E r \in {wrapper_init(wrapper)} : CallWrapper("wrapper_init", NoArg, r)

QueryImage(image) ==
    /\ wrapper.built
    /\ \E r \in {query_image(wrapper, image)} : CallWrapper("query_image", image, r)

CombineMatches(sift_matches, cname_matches) ==
    /\ wrapper.built
    /\ \E r \in {combine_matches(wrapper, sift_matches, cname_matches)} :
          CallWrapper("combine_matches", [sift |-> sift_matches, cname |-> cname_matches], r)

NextFusion ==
    \/ \E x \in FusedVectors : LoadSift(x)
    \/ \E x \in FusedVectors : LoadCname(x)
    \/ WrapperInit
    \/ \E image \in Images : QueryImage(image)
    \/ \E sift_matches, cname_matches \in MatchLists :
          CombineMatches(sift_matches, cname_matches)

SpecFusion == Init /\ [][NextFusion]_vars

\* ------------------------------------------------- writing and reloading
\* A catalog is filled and thinned out with add_image and del; at any moment
\* its vocabulary and vectors are written to a file, the file is loaded with
\* from_file, and the same query is asked of both catalogs.
RoundTripInputs ==
    { Vec(<<3, 0, 0>>), Vec(<<0, 2, 0>>), Vec(<<1, 1, 0>>), descriptors_from_bow(<<2, 2, 0>>) }

RoundTripQueries ==
    { descriptors_from_bow(<<1, 1, 0>>), Mat(2, << <<1, 0>>, <<0, 3>> >>) }

\* what a call gave: the exception or the value
Outcome(r) == [raised |-> r.raised, value |-> r.value]

RoundTrip(descriptors) ==
    /\ \E loaded \in {from_file(to_file(self))} :
          result' = [op |-> "round_trip", key |-> "", arg |-> descriptors,
                     raised |-> loaded.raised,
                     value |-> [original |-> Outcome(query_descriptors(self, descriptors)),
                                reloaded |-> IF loaded.raised # "None" THEN Outcome(loaded)
                                             ELSE Outcome(query_descriptors(loaded.self,
                                                                            descriptors))]]
    /\ UNCHANGED <<outside, wrapper, annoy_index, image_vectors, idf, word_counts, added_ever,
                   ever_count, search, main>>

NextRoundTrip ==
    \/ \E key \in Keys, x \in RoundTripInputs : AddImage(key, x)
    \/ \E key \in Keys : DelItem(key)
    \/ \E descriptors \in RoundTripQueries : RoundTrip(descriptors)

SpecRoundTrip == Init /\ [][NextRoundTrip]_vars

\* ------------------------------------------------ the vocabulary given
\* The constructor takes any K x D array: the one of the other
\* specifications, or an array without rows (shape (0, 2)).  Neither
\* __init__ nor _load_vocabulary looks at the number of rows: shape[1] is
\* defined, the loop of line 215 adds no item, and annoy builds an index
\* over no items.
Vocabularies == { Vocabulary, Mat(2, << >>) }

InitVocabulary == \E voc \in Vocabularies : Construct(voc)

SpecVocabulary == InitVocabulary /\ [][Next]_vars

\* ------------------------------------------------------------- properties
Zero == Distance(1, 1, 1)
One == Distance(0, 0, 1)

IsAdd(r) == r.op \in {"add_image", "setitem"}
Succeeded(r) == r.raised = "None"
IsZero(v) == \A w \in 1..Len(v) : v[w] = 0

\* the input is a matrix as wide as the vocabulary
WellFormed(descriptors) == descriptors.ndim = 2 /\ descriptors.cols = annoy_index.f

\* the input has the wrong width: a short or long vector, a narrow or wide matrix
BadWidth(x) ==
    \/ x.ndim = 1 /\ Len(x.data) # Len(annoy_index.items)
    \/ x.ndim = 2 /\ x.cols # annoy_index.f

CatalogUnchanged ==
    /\ image_vectors' = image_vectors
    /\ word_counts' = word_counts
    /\ idf' = idf

\* C1: inserting a key that is already in the catalog, with add_image or with
\* db[key] = x, raises DatabaseError and leaves the stored vectors, the word
\* counts and the IDF as they were.
C1_DuplicateKeyRejected ==
    [][(IsAdd(result') /\ Contains(image_vectors, result'.key))
        => (result'.raised = "DatabaseError" /\ CatalogUnchanged)]_vars

\* C1 witness: a second add_image of a stored key, with a valid vector that
\* differs from the stored one, has just been refused.
C1_Witness ==
    /\ result.op = "add_image"
    /\ result.raised = "DatabaseError"
    /\ ~BadWidth(result.arg)
    /\ Contains(image_vectors, result.key)
    /\ Lookup(image_vectors, result.key) # result.arg.data

\* C2: while nothing has been removed, word_counts[w] is the number of stored
\* documents with bow[w] > 0, the number of documents is the number of
\* successful insertions, and idf[w] = log(num_docs / (1 + word_counts[w]));
\* before the first insertion the counts are zero and there is no IDF.
C2_CountsAndIdf ==
    Len(image_vectors) = added_ever =>
        /\ \A w \in 1..Len(word_counts) :
              word_counts[w] =
                  Cardinality({i \in 1..Len(image_vectors) : image_vectors[i][2][w] > 0})
        /\ IF added_ever = 0 THEN idf = None
           ELSE idf = [w \in 1..Len(word_counts) |->
                         LnTable[Len(image_vectors)] - LnTable[1 + word_counts[w]]]

\* C2 witness: [3,0,0], [0,2,0], [1,1,0] were added in this order; the counts
\* are [2,2,0] and the IDF is [0, 0, log 3].
C2_Witness ==
    /\ Len(image_vectors) = 3
    /\ added_ever = 3
    /\ [i \in 1..3 |-> image_vectors[i][2]] = << <<3, 0, 0>>, <<0, 2, 0>>, <<1, 1, 0>> >>
    /\ word_counts = <<2, 2, 0>>
    /\ idf = <<0, 0, LnTable[3]>>

C4_OneIdfSnapshot ==
    search.pc = "done" =>
        \A i \in 1..Len(search.t_idf) : search.t_idf[i] = search.q_idf

\* C5: a well-formed query of a catalog on which no insertion has succeeded
\* returns the empty list and raises nothing.
C5_EmptyCatalogQuery ==
    (result.op = "query_descriptors" /\ WellFormed(result.arg) /\ added_ever = 0)
        => (Succeeded(result) /\ result.value = << >>)

\* C6: a query whose TF-IDF vector is zero reports every stored document at
\* distance exactly 1, and so does a query for every stored document whose
\* TF-IDF vector is zero.
C6_ZeroVectorDistance ==
    (result.op = "query_descriptors" /\ Succeeded(result)) =>
        \A i \in 1..Len(result.value) :
            (\/ IsZero(weigh(bag(self, result.arg).value, idf))
             \/ IsZero(weigh(Lookup(image_vectors, result.value[i][1]), idf)))
                => result.value[i][2] = One

C8_OnePairPerKeySorted ==
    (result.op = "query_descriptors" /\ Succeeded(result) /\ Len(image_vectors) > 0) =>
        /\ Len(result.value) = Len(image_vectors)
        /\ {result.value[i][1] : i \in 1..Len(result.value)} = KeySet(image_vectors)
        /\ \A i, j \in 1..Len(result.value) :
              i < j => ~FloatLt(result.value[j][2], result.value[i][2])

\* C9: documents at the same distance from the query are listed in the order
\* in which their keys were inserted.
C9_TiesInInsertionOrder ==
    (result.op = "query_descriptors" /\ Succeeded(result)) =>
        \A i, j \in 1..Len(result.value) :
            (/\ i < j
             /\ ~result.value[i][2].nan
             /\ result.value[i][2] = result.value[j][2])
                => Position(result.value[i][1]) < Position(result.value[j][1])

\* C10: add_image of a vector whose length is not K, or of a matrix whose
\* width is not D, raises DatabaseError and leaves the stored vectors, the
\* word counts and the IDF as they were; a key that was absent stays absent.
C10_DimensionMismatch ==
    [][(IsAdd(result') /\ BadWidth(result'.arg))
        => /\ result'.raised = "DatabaseError"
           /\ CatalogUnchanged
           /\ (~Contains(image_vectors, result'.key)
                  => ~Contains(image_vectors', result'.key))]_vars

\* C10 witness: add_image of a new key with a matrix of the wrong width has
\* just been refused by a catalog that holds documents.
C10_Witness ==
    /\ result.op = "add_image"
    /\ result.arg.ndim = 2
    /\ BadWidth(result.arg)
    /\ result.raised = "DatabaseError"
    /\ ~Contains(image_vectors, result.key)
    /\ Len(image_vectors) > 0

\* C11: del db[key] of a key that the catalog does not hold raises KeyError
\* and leaves the stored vectors, the word counts and the IDF as they were.
C11_RemoveAbsentKey ==
    [][(result'.op = "delitem" /\ ~Contains(image_vectors, result'.key))
        => (result'.raised = "KeyError" /\ CatalogUnchanged)]_vars

\* C11 witness: the removal of an absent key has just been refused by a
\* catalog that holds other documents.
C11_Witness ==
    /\ result.op = "delitem"
    /\ result.raised = "KeyError"
    /\ ~Contains(image_vectors, result.key)
    /\ Len(image_vectors) > 0
    /\ idf # None

\* C12: del db[key] of a stored key removes that entry and nothing else: the
\* key is no longer contained, every other entry is stored as before, in the
\* same order, and the word counts and the IDF are the ones from before.
C12_RemoveOnlyThatEntry ==
    [][(result'.op = "delitem" /\ Contains(image_vectors, result'.key))
        => /\ result'.raised = "None"
           /\ ~Contains(image_vectors', result'.key)
           /\ image_vectors' = SelectSeq(image_vectors, LAMBDA e : e[1] # result'.key)
           /\ \A k \in KeySet(image_vectors) \ {result'.key} :
                 /\ Contains(image_vectors', k)
                 /\ Lookup(image_vectors', k) = Lookup(image_vectors, k)
           /\ word_counts' = word_counts
           /\ idf' = idf]_vars

\* C12 witness: the first of three documents has just been removed; two
\* remain and every word count still includes the removed one.
C12_Witness ==
    /\ result.op = "delitem"
    /\ result.raised = "None"
    /\ Len(image_vectors) = 2
    /\ added_ever = 3
    /\ word_counts = ever_count
    /\ \E w \in 1..Len(word_counts) :
          word_counts[w] >
              Cardinality({i \in 1..Len(image_vectors) : image_vectors[i][2][w] > 0})

\* the word counts after the first n insertions of a catalog without removals
counts_after(items, n) ==
    array([w \in 1..Len(word_counts) |->
              Cardinality({i \in 1..n : items[i][2][w] > 0})])

\* the IDF that add_image computed when the n-th document was inserted
idf_after(items, n) == compute_idf(n, counts_after(items, n))

\* C13: every distance a query reports is the cosine distance between the
\* query's vector and the document's stored vector, both weighted with the
\* IDF of the moment of the query; a document inserted under another IDF is
\* weighted with the current one.
C13_QueryUsesCurrentIdf ==
    (result.op = "query_descriptors" /\ Succeeded(result)) =>
        \A m \in 1..Len(result.value) :
            result.value[m][2] =
                cos_distance(weigh(bag(self, result.arg).value, idf),
                             weigh(Lookup(image_vectors, result.value[m][1]), idf))

\* C13 witness: a query reports, for a document inserted before the IDF took
\* its current value, a distance that is a number and is not the one the
\* weights of the document's insertion would give.
C13_Witness ==
    /\ result.op = "query_descriptors"
    /\ Succeeded(result)
    /\ Len(image_vectors) = added_ever
    /\ \E m \in 1..Len(result.value) :
          LET i == Position(result.value[m][1])
          IN  /\ i < Len(image_vectors)
              /\ idf_after(image_vectors, i) # idf
              /\ ~result.value[m][2].nan
              /\ result.value[m][2] #
                    cos_distance(weigh(bag(self, result.arg).value, idf),
                                 weigh(image_vectors[i][2], idf_after(image_vectors, i)))

\* C14: a successful add_image (or db[key] = x) leaves every entry stored
\* before the call in place, with the same vector and in the same order; the
\* catalog grows by the one entry of the new key.
C14_AddKeepsStoredEntries ==
    [][(IsAdd(result') /\ Succeeded(result'))
        => /\ Len(image_vectors') = Len(image_vectors) + 1
           /\ SubSeq(image_vectors', 1, Len(image_vectors)) = image_vectors
           /\ image_vectors'[Len(image_vectors')][1] = result'.key
           /\ ~Contains(image_vectors, result'.key)
           /\ \A k \in KeySet(image_vectors) :
                 /\ Contains(image_vectors', k)
                 /\ Lookup(image_vectors', k) = Lookup(image_vectors, k)]_vars

\* C14 witness: a third document has just been added, next to two stored
\* ones whose vectors differ from it, and the IDF is no longer the one that
\* the second insertion computed.
C14_Witness ==
    /\ result.op = "add_image"
    /\ Succeeded(result)
    /\ Len(image_vectors) = 3
    /\ added_ever = 3
    /\ image_vectors[3][1] = result.key
    /\ image_vectors[1][2] # image_vectors[3][2]
    /\ image_vectors[2][2] # image_vectors[3][2]
    /\ idf # idf_after(image_vectors, 2)

\* the two lists of matches that the last call of the wrapper combined
FusedLists ==
    IF result.op = "combine_matches" THEN result.arg
    ELSE [sift  |-> query_descriptors(wrapper.sift_db, result.arg.sift).value,
          cname |-> query_descriptors(wrapper.cname_db, result.arg.cname).value]

IsFusion(r) == r.op \in {"combine_matches", "query_image"}

\* C15: combining two lists of matches over the same keys returns one pair
\* for every key; its distance is one of the key's two distances and neither
\* of the two is smaller; no pair is at a smaller distance than a pair listed
\* before it.
C15_FusedByMinimum ==
    (/\ IsFusion(result)
     /\ Succeeded(result)
     /\ KeySet(FusedLists.sift) = KeySet(FusedLists.cname)) =>
        LET s == dict(FusedLists.sift)
            c == dict(FusedLists.cname)
        IN  /\ Len(result.value) = Cardinality(KeySet(s))
            /\ KeySet(result.value) = KeySet(s)
            /\ \A m \in 1..Len(result.value) :
                  LET k == result.value[m][1]
                      v == result.value[m][2]
                  IN  /\ v \in {Lookup(s, k), Lookup(c, k)}
                      /\ ~FloatLt(Lookup(s, k), v)
                      /\ ~FloatLt(Lookup(c, k), v)
            /\ \A i, j \in 1..Len(result.value) :
                  i < j => ~FloatLt(result.value[j][2], result.value[i][2])

\* C16: combining two lists of matches whose key sets differ raises an error
\* and returns no list, whichever list holds the extra key; and a wrapper is
\* built only over two databases with the same keys.
C16_KeySetMismatch ==
    /\ wrapper.built =>
          KeySet(wrapper.sift_db.image_vectors) = KeySet(wrapper.cname_db.image_vectors)
    /\ (IsFusion(result) /\ KeySet(FusedLists.sift) # KeySet(FusedLists.cname)) =>
          (result.raised # "None" /\ result.value = << >>)

\* the vector holds counts: whole numbers, none negative
IsCounts(v) == \A w \in 1..Len(v) : v[w] \in Nat

\* C17: bag of a matrix of N rows as wide as the vocabulary words returns K
\* counts, none negative, whose sum is N; add_image of such a matrix stores
\* this vector under the key, and add_image of a vector of length K stores
\* the vector as given.
C17_BagCountsEveryDescriptor ==
    /\ \A descriptors \in DescriptorInputs \cup QueryInputs :
          descriptors.cols = annoy_index.f =>
              \A q_tf \in {bag(self, descriptors)} :
                  /\ q_tf.raised = "None"
                  /\ Len(q_tf.value) = Len(annoy_index.items)
                  /\ IsCounts(q_tf.value)
                  /\ SumTo(q_tf.value, Len(annoy_index.items)) = Len(descriptors.data)
    /\ (result.op = "add_image" /\ Succeeded(result)) =>
          LET stored == image_vectors[Len(image_vectors)]
          IN  /\ stored[1] = result.key
              /\ IF result.arg.ndim = 1 THEN stored[2] = result.arg.data
                 ELSE /\ stored[2] = bag(self, result.arg).value
                      /\ Len(stored[2]) = Len(annoy_index.items)
                      /\ IsCounts(stored[2])
                      /\ SumTo(stored[2], Len(stored[2])) = Len(result.arg.data)

\* C17 witness: add_image of a matrix with two rows on word 1 and two rows on
\* word 2 has stored [2, 2, 0].
C17_Witness ==
    /\ result.op = "add_image"
    /\ Succeeded(result)
    /\ result.arg.ndim = 2
    /\ Len(result.arg.data) = 4
    /\ Lookup(image_vectors, result.key) = <<2, 2, 0>>

\* the keys were inserted in the order in which a file lists them
InFileOrder ==
    [i \in 1..Len(image_vectors) |-> image_vectors[i][1]]
        = SelectSeq(KeyOrder, LAMBDA k : Contains(image_vectors, k))

\* C18 as stated: for every catalog that holds documents, the catalog loaded
\* from the file of its vocabulary and vectors answers a query with the same
\* list, in order and in distances, as the catalog itself.
C18_Original ==
    (result.op = "round_trip" /\ Len(image_vectors) > 0) =>
        result.value.reloaded = result.value.original

\* C18 amended: for a catalog from which nothing has been removed, the
\* reloaded catalog answers with the same pairs of key and distance; and
\* with the same list when the keys were inserted in the file's order.
C18_RoundTrip ==
    (result.op = "round_trip" /\ Len(image_vectors) > 0 /\ Len(image_vectors) = added_ever) =>
        /\ result.raised = "None"
        /\ result.value.reloaded.raised = result.value.original.raised
        /\ Len(result.value.reloaded.value) = Len(result.value.original.value)
        /\ {result.value.reloaded.value[i] : i \in 1..Len(result.value.reloaded.value)}
              = {result.value.original.value[i] : i \in 1..Len(result.value.original.value)}
        /\ InFileOrder => result.value.reloaded = result.value.original

\* C18 witness: three documents inserted in the file's order, none ever
\* removed, and the query of the original and of the reloaded catalog gives
\* the same three pairs, one of them at a distance that is a number.
C18_Witness ==
    /\ result.op = "round_trip"
    /\ Len(image_vectors) = 3
    /\ added_ever = 3
    /\ InFileOrder
    /\ result.value.original.raised = "None"
    /\ Len(result.value.reloaded.value) = 3
    /\ result.value.reloaded = result.value.original
    /\ \E m \in 1..3 : ~result.value.original.value[m][2].nan

\* C19: no catalog is constructed from a vocabulary without rows: every
\* catalog that exists has a vocabulary of at least one word.
C19_EmptyVocabulary == vocabulary_size(self) > 0

\* C20: the catalog is the mapping of the keys added and not since removed.
\* It is empty after construction (Init); a successful insertion adds its
\* key, which was absent, and makes len one more; a successful del removes
\* its key, which was present, and makes len one less; a call that raises,
\* and a query, leave the keys as they were; and at every moment iteration
\* gives each stored key once, so len is the number of stored keys.
C20_MappingSemantics ==
    [][/\ (IsAdd(result') /\ Succeeded(result')) =>
             /\ ~Contains(image_vectors, result'.key)
             /\ KeySet(image_vectors') = KeySet(image_vectors) \cup {result'.key}
             /\ Len(image_vectors') = Len(image_vectors) + 1
       /\ (result'.op = "delitem" /\ Succeeded(result')) =>
             /\ Contains(image_vectors, result'.key)
             /\ KeySet(image_vectors') = KeySet(image_vectors) \ {result'.key}
             /\ Len(image_vectors') = Len(image_vectors) - 1
       /\ (~Succeeded(result') \/ result'.op = "query_descriptors") =>
             image_vectors' = image_vectors
       /\ Cardinality(KeySet(image_vectors')) = Len(image_vectors')
       /\ \A k \in Keys : Contains(image_vectors', k) <=> k \in KeySet(image_vectors')]_vars

\* C20 witness: after three insertions and two removals the catalog holds
\* the one key of the last insertion.
C20_Witness ==
    /\ result.op = "add_image"
    /\ Succeeded(result)
    /\ added_ever = 3
    /\ Len(image_vectors) = 1
    /\ KeySet(image_vectors) = {result.key}


\* ------------------------------------------------- DatabaseWithLocation
\* collections.namedtuple instances of vsearch/database.py
LatLng(lat, lng) == [tag |-> "LatLng", lat |-> lat, lng |-> lng]
DatabaseEntry(key, bow_, latlng) ==
    [tag |-> "DatabaseEntry", key |-> key, bow |-> bow_, latlng |-> latlng]

\* the DatabaseWithLocation built over the catalog: visualdb and locations
locdb == [visualdb |-> self, locations |-> locations]

\* DatabaseWithLocation.__getitem__ that never creates the default entry and
\* gives the location of the first item of locations
location_getitem_first(ldb, key) ==
    IF ~Contains(ldb.visualdb.image_vectors, key) THEN Raise("KeyError", ldb)
    ELSE Return(ldb, DatabaseEntry(key, Lookup(ldb.visualdb.image_vectors, key),
                                   IF Len(ldb.locations) = 0 THEN NoLatLng
                                   ELSE ldb.locations[1][2]))

\* DatabaseWithLocation.__getitem__: self.visualdb[key] raises KeyError for
\* an absent key; self.locations[key] stores and gives the default None for
\* a key that locations does not hold (defaultdict)
location_getitem(ldb, key) ==
    IF ~Contains(ldb.visualdb.image_vectors, key) THEN Raise("KeyError", ldb)
    ELSE LET locs == IF Contains(ldb.locations, key) THEN ldb.locations
                     ELSE Append(ldb.locations, <<key, NoLatLng>>)
         IN  Return([ldb EXCEPT !.locations = locs],
                    DatabaseEntry(key, Lookup(ldb.visualdb.image_vectors, key),
                                  Lookup(locs, key)))

\* DatabaseWithLocation.__setitem__: self.locations[key] = latlng
location_setitem(ldb, key, latlng) ==
    Return([ldb EXCEPT !.locations =
               IF Contains(ldb.locations, key)
               THEN array([i \in 1..Len(ldb.locations) |->
                              IF ldb.locations[i][1] = key THEN <<key, latlng>>
                              ELSE ldb.locations[i]])
               ELSE Append(ldb.locations, <<key, latlng>>)], << >>)

\* DatabaseWithLocation.__delitem__: del self.visualdb[key], then
\* del self.locations[key], which raises KeyError for a key that locations
\* does not hold (the default is made by lookups only)
location_delitem(ldb, key) ==
    LET r == delitem(ldb.visualdb, key)
    IN  IF r.raised # "None" THEN Raise(r.raised, ldb)
        ELSE IF ~Contains(ldb.locations, key)
             THEN Raise("KeyError", [ldb EXCEPT !.visualdb = r.self])
             ELSE Return([ldb EXCEPT !.visualdb = r.self,
                                     !.locations = SelectSeq(ldb.locations,
                                                             LAMBDA e : e[1] # key)], << >>)

\* DatabaseWithLocation.__iter__ and __len__
location_iter(ldb) == Return(ldb, array([i \in 1..Len(ldb.visualdb.image_vectors) |->
                                            ldb.visualdb.image_vectors[i][1]]))
location_len(ldb) == Return(ldb, Len(ldb.visualdb.image_vectors))

\* GuiWrappedDatabase.update_location: old = self[key], then self[key] = new
\* with new = DatabaseEntry(old.key, old.bow, latlng)
update_location(ldb, key, latlng) ==
    LET old == location_getitem(ldb, key)
    IN  IF old.raised # "None" THEN Raise(old.raised, old.self)
        ELSE location_setitem(old.self, key,
                              DatabaseEntry(old.value.key, old.value.bow, latlng))

\* GuiWrappedDatabase.load_geofile, lines 48-62: update_location for every
\* line key, lat, lng of the file
RECURSIVE load_geofile(_, _, _)
load_geofile(ldb, lines, i) ==
    IF i > Len(lines) THEN Return(ldb, << >>)
    ELSE LET r == update_location(ldb, lines[i][1], LatLng(lines[i][2], lines[i][3]))
         IN  IF r.raised # "None" THEN r ELSE load_geofile(r.self, lines, i + 1)

\* the keys and locations of the calls of SpecLocation
LocationKeys == {"a", "b"}
LatLngs == { LatLng(58, 65), LatLng(59, 18) }
\* geofiles: one line, and two lines of which the second names the same key
Geofiles == { << <<"a", 58, 65>> >>, << <<"b", 58, 65>>, <<"b", 59, 18>> >> }

CallLocation(op, key, arg, r) ==
    /\ result' = [op |-> op, key |-> key, arg |-> arg, raised |-> r.raised, value |-> r.value]
    /\ annoy_index' = r.self.visualdb.annoy_index
    /\ image_vectors' = r.self.visualdb.image_vectors
    /\ idf' = r.self.visualdb.idf
    /\ word_counts' = r.self.visualdb.word_counts
    /\ locations' = r.self.locations
    /\ UNCHANGED <<search, main, wrapper, gui, index_path, build>>

\* visualdb.add_image(key, x): the catalog is filled behind the wrapper
LocAddImage(key, x) ==
    /\ added_ever < MaxAdds
    /\ \E r \in {add_image(self, key, x)} :
          /\ CallLocation("add_image", key, x, [r EXCEPT !.self = [locdb EXCEPT !.visualdb = r.self]])
          /\ Observe(r)
    /\ UNCHANGED last_set

\* locdb[key]
LocGetItem(key) ==
    /\ \E r \in {location_getitem(locdb, key)} : CallLocation("location_getitem", key, NoArg, r)
    /\ UNCHANGED <<last_set, added_ever, ever_count>>

\* locdb[key] = latlng
LocSetItem(key, latlng) ==
    /\ \E r \in {location_setitem(locdb, key, latlng)} :
          CallLocation("location_setitem", key, latlng, r)
    /\ last_set' = [last_set EXCEPT ![key] = latlng]
    /\ UNCHANGED <<added_ever, ever_count>>

\* del locdb[key]; a removed location is no longer the key's
LocDelItem(key) ==
    \E r \in {location_delitem(locdb, key)} :
        /\ CallLocation("location_delitem", key, NoArg, r)
        /\ last_set' = IF r.raised = "None" THEN [last_set EXCEPT ![key] = NoLatLng]
                       ELSE last_set
        /\ UNCHANGED <<added_ever, ever_count>>

\* len(locdb) and list(locdb)
LocLen ==
    /\ \E r \in {location_len(locdb)} : CallLocation("location_len", "", NoArg, r)
    /\ UNCHANGED <<last_set, added_ever, ever_count>>
LocIter ==
    /\ \E r \in {location_iter(locdb)} : CallLocation("location_iter", "", NoArg, r)
    /\ UNCHANGED <<last_set, added_ever, ever_count>>

\* update_location(key, latlng); what it hands to locdb[key] = new is the
\* entry made of the key, its vector and latlng
UpdateLocation(key, latlng) ==
    \E r \in {update_location(locdb, key, latlng)} :
        /\ CallLocation("update_location", key, latlng, r)
        /\ last_set' = IF r.raised = "None"
                       THEN [last_set EXCEPT ![key] =
                                DatabaseEntry(key, Lookup(image_vectors, key), latlng)]
                       ELSE last_set
        /\ UNCHANGED <<added_ever, ever_count>>

\* load_geofile(path), for a file whose keys the catalog holds
LoadGeofile(lines) ==
    /\ \A i \in 1..Len(lines) : Contains(image_vectors, lines[i][1])
    /\ \E r \in {load_geofile(locdb, lines, 1)} :
        /\ CallLocation("load_geofile", "", lines, r)
        /\ last_set' = [key \in Keys |->
                           IF \E i \in 1..Len(lines) : lines[i][1] = key
                           THEN LET last == CHOOSE i \in 1..Len(lines) :
                                                /\ lines[i][1] = key
                                                /\ \A j \in (i + 1)..Len(lines) : lines[j][1] # key
                                IN  DatabaseEntry(key, Lookup(image_vectors, key),
                                                  LatLng(lines[last][2], lines[last][3]))
                           ELSE last_set[key]]
        /\ UNCHANGED <<added_ever, ever_count>>

NextLocation ==
    \/ \E key \in LocationKeys, x \in {Vec(<<3, 0, 0>>), Vec(<<1, 1, 0>>)} : LocAddImage(key, x)
    \/ \E key \in LocationKeys : LocGetItem(key)
    \/ \E key \in LocationKeys, latlng \in LatLngs : LocSetItem(key, latlng)
    \/ \E key \in LocationKeys : LocDelItem(key)
    \/ LocLen
    \/ LocIter
    \/ \E key \in LocationKeys, latlng \in LatLngs \cup {NoLatLng} : UpdateLocation(key, latlng)
    \/ \E lines \in Geofiles : LoadGeofile(lines)

SpecLocation == Init /\ [][NextLocation]_vars


C25_DeleteAllOrNothing ==
    [][(result'.op = "location_delitem" /\ Contains(image_vectors, result'.key)) =>
          IF result'.raised = "None"
          THEN /\ ~Contains(image_vectors', result'.key)
               /\ ~Contains(locations', result'.key)
          ELSE /\ image_vectors' = image_vectors
               /\ locations' = locations]_vars


\* C29: after update_location(key, latlng) the entry that a lookup of key
\* gives has latlng equal to the value passed (None after
\* update_location(key, None)), and after load_geofile the entry of a key
\* has the coordinates of the last line of the file that names the key.
C29_UpdateLocationReadBack ==
    /\ (result.op = "update_location" /\ result.raised = "None") =>
          location_getitem(locdb, result.key).value.latlng = result.arg
    /\ (result.op = "load_geofile" /\ result.raised = "None") =>
          \A i \in 1..Len(result.arg) :
              (\A j \in (i + 1)..Len(result.arg) : result.arg[j][1] # result.arg[i][1]) =>
                  location_getitem(locdb, result.arg[i][1]).value.latlng =
                      LatLng(result.arg[i][2], result.arg[i][3])


\* ------------------------------------------------------ markers of the GUI
\* markers made in one run of SpecMarkers
MaxMarkers == 3

\* k in d and d[k] for a dict written as the set of its items
DictHas(d, k) == \E e \in d : e[1] = k
DictGet(d, k) == (CHOOSE e \in d : e[1] = k)[2]

\* the database with its map: the DatabaseWithLocation part and the markers
guidb == [db |-> locdb, gui |-> gui]

\* LeafletMarker.remove of the marker registered under id: formatting the
\* script with {id:d} raises TypeError for a marker whose id is None; else
\* the script takes the marker from the map and from marker_dict, and the
\* marker's id becomes None
marker_remove(g, id) ==
    IF \E m \in g.markers : m.key = id /\ m.removed THEN Raise("TypeError", g)
    ELSE Return([g EXCEPT !.marker_dict = g.marker_dict \ {id},
                          !.markers = {IF m.key = id THEN [m EXCEPT !.removed = TRUE] ELSE m :
                                         m \in g.markers}], << >>)

\* LeafletMarker.add_to_map for one position: the script makes the marker,
\* L.stamp gives its id, and the widget registers it under the id.  A marker
\* in the widget's dict: key is the id under which it is registered, removed
\* says that its field id is None.
add_to_map(g) ==
    [g EXCEPT !.stamp = g.stamp + 1,
              !.marker_dict = g.marker_dict \cup {g.stamp + 1},
              !.markers = {m \in g.markers : m.key # g.stamp + 1} \cup {[key |-> g.stamp + 1, removed |-> FALSE]}]

\* LeafletWidget.remove_all_markers, lines 129-131: the loop over
\* self.markers.values(), in the order of registration, then clear()
RECURSIVE widget_remove_all(_, _)
widget_remove_all(g, ids) ==
    IF ids = {} THEN Return([g EXCEPT !.markers = {}], << >>)
    ELSE LET id == CHOOSE i \in ids : \A j \in ids : i <= j
             r == marker_remove(g, id)
         IN  IF r.raised # "None" THEN r ELSE widget_remove_all(r.self, ids \ {id})

\* GuiWrappedDatabase.remove_all_markers
remove_all_markers(gdb) ==
    LET r == widget_remove_all(gdb.gui, {m.key : m \in gdb.gui.markers})
    IN  IF r.raised # "None" THEN Raise(r.raised, [gdb EXCEPT !.gui = r.self])
        ELSE Return([gdb EXCEPT !.gui = [r.self EXCEPT !.marker_id_to_key = {},
                                                        !.key_to_marker_id = {}]], << >>)

\* GuiWrappedDatabase.remove_marker
remove_marker(gdb, marker_id) ==
    IF ~\E m \in gdb.gui.markers : m.key = marker_id THEN Raise("KeyError", gdb)
    ELSE LET r == marker_remove(gdb.gui, marker_id)
             g == r.self
         IN  IF r.raised # "None" THEN Raise(r.raised, [gdb EXCEPT !.gui = g])
             ELSE IF ~DictHas(g.marker_id_to_key, marker_id)
                  THEN Raise("KeyError", [gdb EXCEPT !.gui = g])
                  ELSE LET key == DictGet(g.marker_id_to_key, marker_id)
                           g1 == [g EXCEPT !.marker_id_to_key = {e \in @ : e[1] # marker_id}]
                       IN  IF ~DictHas(g1.key_to_marker_id, key)
                           THEN Raise("KeyError", [gdb EXCEPT !.gui = g1])
                           ELSE Return([gdb EXCEPT !.gui =
                                           [g1 EXCEPT !.key_to_marker_id = {e \in @ : e[1] # key}]],
                                       << >>)

\* GuiWrappedDatabase.add_marker_for_key, for locations that are None or a
\* LatLng; None is false
add_marker_for_key(gdb, key) ==
    IF DictHas(gdb.gui.key_to_marker_id, key) THEN Raise("KeyError", gdb)
    ELSE LET e == location_getitem(gdb.db, key)
         IN  IF e.raised # "None" THEN Raise(e.raised, [gdb EXCEPT !.db = e.self])
             ELSE IF e.value.latlng = NoLatLng
                  THEN Raise("KeyError", [gdb EXCEPT !.db = e.self])
                  ELSE LET g == add_to_map(gdb.gui)
                       IN  Return([gdb EXCEPT
                                      !.db = e.self,
                                      !.gui = [g EXCEPT
                                         !.marker_id_to_key =
                                            {item \in @ : item[1] # g.stamp} \cup {<<g.stamp, key>>},
                                         !.key_to_marker_id =
                                            {item \in @ : item[1] # key} \cup {<<key, g.stamp>>}]],
                                  g.stamp)

GuiCall(op, key, arg, r) ==
    /\ result' = [op |-> op, key |-> key, arg |-> arg, raised |-> r.raised, value |-> r.value]
    /\ locations' = r.self.db.locations
    /\ gui' = r.self.gui
    /\ UNCHANGED <<annoy_index, image_vectors, idf, word_counts, added_ever, ever_count,
                   search, main, wrapper, last_set, index_path, build>>

AddMarkerForKey(key) ==
    /\ gui.stamp < MaxMarkers
    /\ \E r \in {add_marker_for_key(guidb, key)} : GuiCall("add_marker_for_key", key, NoArg, r)

RemoveMarker(marker_id) ==
    \E r \in {remove_marker(guidb, marker_id)} :
        GuiCall("remove_marker", "", Vec(<<marker_id>>), r)

RemoveAllMarkers ==
    \E r \in {remove_all_markers(guidb)} : GuiCall("remove_all_markers", "", NoArg, r)

NextMarkers ==
    \/ \E key \in LocationKeys, x \in {Vec(<<1, 1, 0>>)} : LocAddImage(key, x)
    \/ \E key \in LocationKeys, latlng \in {LatLng(58, 65)} : LocSetItem(key, latlng)
    \/ \E key \in LocationKeys : AddMarkerForKey(key)
    \/ \E marker_id \in 1..MaxMarkers : RemoveMarker(marker_id)
    \/ RemoveAllMarkers

SpecMarkers == Init /\ [][NextMarkers]_vars

\* C30: the widget's dict of markers holds only markers that are on the
\* map, each under its own id, and remove_all_markers completes and leaves
\* the dict and both maps between keys and marker ids empty.
C30_RegistryHoldsLiveMarkers ==
    /\ \A m \in gui.markers : ~m.removed /\ m.key \in gui.marker_dict
    /\ result.op = "remove_all_markers" =>
          /\ result.raised = "None"
          /\ gui.markers = {}
          /\ gui.marker_id_to_key = {}
          /\ gui.key_to_marker_id = {}


\* ------------------------------------------------ image_for_descriptor_file
\* A file name is the sequence of its parts between the dots: image_1.sift.h5
\* is <<"image_1", "sift", "h5">>.  All files are in one directory.
FEATURE_TYPES == { <<"sift", "h5">>, <<"cname", "h5">> }
SUPPORTED_IMAGE_EXTENSIONS == << <<"jpg">>, <<"png">> >>

\* str.endswith
endswith(name, extension) ==
    /\ Len(name) >= Len(extension)
    /\ SubSeq(name, Len(name) - Len(extension) + 1, Len(name)) = extension

\* utils.image_for_descriptor_file, in a directory that holds files: the
\* list of the matching feature types is indexed with [0], which raises
\* IndexError for an empty list; the except clause names KeyError only
image_for_descriptor_file(files, desc_path) ==
    LET matching == {ft \in FEATURE_TYPES : endswith(desc_path, ft)}
    IN  IF matching = {} THEN Raise("IndexError", files)
        ELSE LET feat_type == CHOOSE ft \in matching : TRUE
                 root == SubSeq(desc_path, 1, Len(desc_path) - Len(feat_type))
                 images == SelectSeq(array([i \in 1..Len(SUPPORTED_IMAGE_EXTENSIONS) |->
                                               root \o SUPPORTED_IMAGE_EXTENSIONS[i]]),
                                     LAMBDA path : path \in files)
             IN  IF Len(images) = 0 THEN Raise("ValueError", files)
                 ELSE IF Len(images) = 1 THEN Return(files, images[1])
                 ELSE Raise("ValueError", files)

\* the files a directory may hold, and the paths asked for: those of
\* test_utils.py (image_3 is image_2 here), a colornames file and two names
\* that end with no feature type extension
DirectoryFiles ==
    { <<"image_1", "jpg">>, <<"image_1", "png">>, <<"image_2", "jpg">>, <<"image_2", "png">>,
      <<"image_1", "sift", "jpg">> }
DescriptorPaths ==
    { <<"image_1", "sift", "h5">>, <<"image_2", "sift", "h5">>, <<"image_1", "cname", "h5">>,
      <<"image_1", "h5">>, <<"image_2", "txt">> }

ImageForDescriptorFile(files, desc_path) ==
    /\ \E r \in {image_for_descriptor_file(files, desc_path)} :
          result' = [op |-> "image_for_descriptor_file", key |-> "",
                     arg |-> [files |-> files, desc_path |-> desc_path],
                     raised |-> r.raised, value |-> r.value]
    /\ UNCHANGED <<annoy_index, image_vectors, idf, word_counts, added_ever, ever_count,
                   search, main, wrapper, outside>>

NextUtils ==
    \E files \in SUBSET DirectoryFiles, desc_path \in DescriptorPaths :
        ImageForDescriptorFile(files, desc_path)

SpecUtils == Init /\ [][NextUtils]_vars

\* C22: image_for_descriptor_file gives the image of the directory that has
\* the root of the descriptor file and the extension jpg or png when there is
\* exactly one, and raises ValueError when there is none, when there are
\* several, or when desc_path ends with no known feature type extension.
C22_ImageForDescriptorFile ==
    result.op = "image_for_descriptor_file" =>
        LET files == result.arg.files
            desc_path == result.arg.desc_path
            known == \E ft \in FEATURE_TYPES : endswith(desc_path, ft)
            images == {image \in files :
                           /\ Len(image) = 2
                           /\ image[2] \in {"jpg", "png"}
                           /\ \E ft \in FEATURE_TYPES : desc_path = <<image[1]>> \o ft}
        IN  IF known /\ Cardinality(images) = 1
            THEN result.raised = "None" /\ result.value \in images
            ELSE result.raised = "ValueError"


\* ------------------------------------------- files with reserved scalars
\* a numpy array of no dimension, as h5py gives for a stored number
Scalar(v) == [ndim |-> 0, cols |-> 0, data |-> v]

\* create_bow_db.py, lines 146-156: the entries of the documents and the
\* vocabulary as to_file writes them, and with --grid the two numbers; the
\* names grid_radius and grid_step come after a, b and c in the order of
\* the names
create_bow_db(slf, grid, args) ==
    IF grid
    THEN [to_file(slf) EXCEPT !.entries = @ \o << <<"grid_radius", Scalar(args.radius)>>,
                                                  <<"grid_step", Scalar(args.step)>> >>]
    ELSE to_file(slf)

\* the catalog is written by create_bow_db.py and the file is loaded
FromFileGrid(grid, args) ==
    /\ \E file \in {create_bow_db(self, grid, args)} :
       \E loaded \in {from_file(file)} :
          result' = [op |-> "from_file", key |-> "", arg |-> file,
                     raised |-> loaded.raised,
                     value |-> loaded.self.image_vectors]
    /\ UNCHANGED <<outside, wrapper, annoy_index, image_vectors, idf, word_counts, added_ever,
                   ever_count, search, main>>

NextFile ==
    \/ \E key \in Keys, x \in RoundTripInputs : AddImage(key, x)
    \/ \E key \in Keys : DelItem(key)
    \/ \E grid \in BOOLEAN, args \in {[radius |-> 4, step |-> 2], [radius |-> 8, step |-> 8]} :
          FromFileGrid(grid, args)

SpecFile == Init /\ [][NextFile]_vars

\* C23: a file that holds the vocabulary, the entries of the documents and
\* possibly the reserved numbers grid_radius and grid_step loads, and the
\* keys of the loaded catalog are the keys of the file's documents.
C23_ReservedKeysAreNotDocuments ==
    result.op = "from_file" =>
        /\ result.raised = "None"
        /\ KeySet(result.value) = KeySet(image_vectors)


\* ------------------------------------------------ builds of a database
\* runs of vsearch_database.py at the same time, and source files per run
MaxBuilds == 2
MaxFiles == 2

\* the vocabularies that the runs are started with
BuildVocabularies == { vocabulary, << <<1, 1>>, <<5, 5>> >> }

\* One run: where it is, its vocabulary, the source files not yet handed to
\* a worker, and the vocabularies of the indexes that its workers loaded.
\* lines 90-91: the index is built and index_path is the fixed name
StartBuild(voc) ==
    /\ Len(build) < MaxBuilds
    /\ build' = Append(build, [pc |-> "exists", vocabulary |-> voc,
                               source_files |-> MaxFiles, loaded |-> {}])
    /\ UNCHANGED <<annoy_index, image_vectors, idf, word_counts, result, added_ever,
                   ever_count, search, main, wrapper, locations, last_set, gui, index_path>>

BuildStep(b, pc, file) ==
    /\ build' = [build EXCEPT ![b].pc = pc]
    /\ index_path' = file
    /\ UNCHANGED <<annoy_index, image_vectors, idf, word_counts, result, added_ever,
                   ever_count, search, main, wrapper, locations, last_set, gui>>

\* line 92: if os.path.exists(index_path)
Exists(b) ==
    /\ build[b].pc = "exists"
    /\ BuildStep(b, IF index_path.exists THEN "remove" ELSE "save", index_path)

\* line 94: os.remove(index_path), which raises FileNotFoundError if the
\* file is no longer there
Remove(b) ==
    /\ build[b].pc = "remove"
    /\ IF index_path.exists THEN BuildStep(b, "save", NoFile)
       ELSE BuildStep(b, "FileNotFoundError", index_path)

\* line 95: index.save(index_path) writes the index of this run's vocabulary
Save(b) ==
    /\ build[b].pc = "save"
    /\ BuildStep(b, "pool", [exists |-> TRUE, vocabulary |-> build[b].vocabulary])

\* AnnBowComputer.compute in a worker of the pool: index.load(self.index_file)
\* reads what the file holds now, and fails if there is no file
Compute(b) ==
    /\ build[b].pc = "pool"
    /\ build[b].source_files > 0
    /\ build' = IF index_path.exists
                THEN [build EXCEPT ![b].source_files = @ - 1,
                                   ![b].loaded = @ \cup {index_path.vocabulary}]
                ELSE [build EXCEPT ![b].pc = "OSError"]
    /\ UNCHANGED <<annoy_index, image_vectors, idf, word_counts, result, added_ever,
                   ever_count, search, main, wrapper, locations, last_set, gui, index_path>>

\* lines 102-109: every source file is done and the database is written
Wrote(b) ==
    /\ build[b].pc = "pool"
    /\ build[b].source_files = 0
    /\ BuildStep(b, "wrote", index_path)

NextBuilds ==
    \/ \E voc \in BuildVocabularies : StartBuild(voc)
    \/ \E b \in 1..Len(build) : Exists(b)
    \/ \E b \in 1..Len(build) : Remove(b)
    \/ \E b \in 1..Len(build) : Save(b)
    \/ \E b \in 1..Len(build) : Compute(b)
    \/ \E b \in 1..Len(build) : Wrote(b)

SpecBuilds == Init /\ [][NextBuilds]_vars

\* C24: when builds with different vocabularies run at the same time, every
\* worker of a build loads the index of its own build's vocabulary, and
\* while a build's workers run, the index file is the one the build saved:
\* no other build has removed or overwritten it.
C24_IndexIsOwnedByItsBuild ==
    (\A b, c \in 1..Len(build) : b # c => build[b].vocabulary # build[c].vocabulary) =>
        \A b \in 1..Len(build) :
            /\ build[b].loaded \subseteq {build[b].vocabulary}
            /\ build[b].pc \notin {"FileNotFoundError", "OSError"}
            /\ build[b].pc = "pool" =>
                  index_path = [exists |-> TRUE, vocabulary |-> build[b].vocabulary]


\* ------------------------------------------------- the order of insertion
\* documents added in SpecOrder: vectors and one matrix of descriptors
OrderInputs ==
    { Vec(<<3, 0, 0>>), Vec(<<0, 2, 0>>), Vec(<<1, 1, 0>>), descriptors_from_bow(<<2, 0, 1>>) }

\* the orders in which n entries can be added
Orders(n) == {p \in [1..n -> 1..n] : \A i, j \in 1..n : p[i] = p[j] => i = j}

\* The stored entries are added to a new instance in the order p, as
\* from_file does with the entries of a file in the order of their names.
Reorder(p) ==
    /\ \E loaded \in {from_file_loop(init(Vocabulary),
                                     array([i \in 1..Len(image_vectors) |->
                                               <<image_vectors[p[i]][1],
                                                 Vec(image_vectors[p[i]][2])>>]), 1)} :
          result' = [op |-> "reorder", key |-> "", arg |-> array(p),
                     raised |-> loaded.raised,
                     value |-> [word_counts |-> loaded.self.word_counts,
                                idf |-> loaded.self.idf]]
    /\ UNCHANGED <<outside, wrapper, annoy_index, image_vectors, idf, word_counts, added_ever,
                   ever_count, search, main>>

NextOrder ==
    \/ \E key \in Keys, x \in OrderInputs : AddImage(key, x)
    \/ \E key \in Keys : DelItem(key)
    \/ \E p \in Orders(Len(image_vectors)) : Reorder(p)

SpecOrder == Init /\ [][NextOrder]_vars

\* no document was removed: every document ever added is stored
NoRemovals == added_ever = Len(image_vectors)

\* the number of stored documents in which word w occurs
Occurrences(w) == Cardinality({i \in 1..Len(image_vectors) : image_vectors[i][2][w] > 0})

\* C26: the doc_count and the IDF reached by adding a set of documents do
\* not depend on the order of the insertions: the documents of a catalog
\* without removals, added in any other order, end with the same doc_count
\* and the same IDF.
C26_OrderOfInsertion ==
    (result.op = "reorder" /\ NoRemovals) =>
        /\ result.raised = "None"
        /\ result.value.word_counts = word_counts
        /\ result.value.idf = idf

\* three documents were added again in an order that is not theirs
C26_Witness ==
    /\ result.op = "reorder"
    /\ NoRemovals
    /\ Len(image_vectors) = 3
    /\ result.arg = <<3, 1, 2>>
    /\ image_vectors[1][2] # image_vectors[3][2]
    /\ result.value.idf = idf

\* C27: for every word w, doc_count[w] is at least the number of stored
\* documents with TF[w] > 0 after any adds and removals, and no step makes
\* doc_count[w] smaller.
C27_CountsNeverDecrease ==
    [][\A w \in 1..Len(word_counts) :
          /\ word_counts'[w] >= word_counts[w]
          /\ word_counts'[w] >= Cardinality({i \in 1..Len(image_vectors') :
                                                image_vectors'[i][2][w] > 0})]_vars

\* a removed key was added again and a count is above the stored documents
C27_Witness ==
    /\ result.op = "add_image"
    /\ result.raised = "None"
    /\ added_ever > Len(image_vectors)
    /\ \E w \in 1..Len(word_counts) : word_counts[w] > Occurrences(w) /\ Occurrences(w) > 0

\* C28: after adds without removals, with n stored documents, idf[w] is
\* negative exactly when w occurs in all n documents, zero exactly when it
\* occurs in n - 1 of them, and positive otherwise.
C28_SignOfIdf ==
    (NoRemovals /\ Len(image_vectors) >= 1) =>
        \A w \in 1..Len(idf) :
            /\ idf[w] < 0 <=> Occurrences(w) = Len(image_vectors)
            /\ idf[w] = 0 <=> Occurrences(w) = Len(image_vectors) - 1
            /\ idf[w] > 0 <=> Occurrences(w) < Len(image_vectors) - 1

\* three documents, and a weight of each sign
C28_Witness ==
    /\ NoRemovals
    /\ Len(image_vectors) = 3
    /\ \E u, v, w \in 1..Len(idf) : idf[u] < 0 /\ idf[v] = 0 /\ idf[w] > 0

====
